---- MODULE Spec2Model ----
(***************************************************************************)
(* Model of the interview core of Alto-AI:                                 *)
(*   - the question bank and SelectQuestionsForSession                     *)
(*     (interview/questions.go),                                           *)
(*   - the response validator callGPTAPI and AnalyzeAnswerWithSession      *)
(*     (interview/analyzer.go),                                            *)
(*   - GenerateSessionSummary, ScoreToPercentage, the JSON form of an      *)
(*     analysis (interview/analyzer.go) and LoadQuestions                  *)
(*     (interview/questions.go).                                           *)
(* The specifications share the variables; each one starts a single        *)
(* component from its inputs and leaves the others idle.                   *)
(***************************************************************************)
EXTENDS Integers, Sequences, FiniteSets, Bags, TLC

VARIABLES
    QuestionsByCategory,  \* the process-wide bank: category -> list of texts
    level,                \* the level token of the selection call, NoCall before it
    selectedQuestions,    \* what SelectQuestionsForSession returned
    randomCategory,       \* medium tier: the category of the extra draw
    reply,                \* the reply of the reasoning service
    category,             \* the category passed to AnalyzeAnswerWithSession
    analysis,             \* the *AnalysisResponse returned, Nil when none
    err,                  \* the error returned, NoError when none
    session,              \* the *Session passed to AnalyzeAnswerWithSession
    apiKey,               \* VisaAnalyzer.apiKey
    transport,            \* what the HTTP exchange with the service comes to
    errDetail,            \* the dynamic type of err and the values it carries
    messages,             \* the messages of the request that was built
    analyses,             \* the records passed to GenerateSessionSummary
    summary,              \* the *SessionSummary returned, Nil when none
    summaryErr,           \* the error GenerateSessionSummary returned
    scoreArg,             \* ScoreToPercentage: the score argument
    criteriaCountArg,     \* ScoreToPercentage: the criteriaCount argument
    percentage,           \* ScoreToPercentage: the result, Nil before the call
    response,             \* the AnalysisResponse handed to json.Marshal
    jsonData,             \* the JSON text json.Marshal produced, Nil before
    unmarshaled,          \* the AnalysisResponse json.Unmarshal produced
    files,                \* the file system: path -> questions file
    path,                 \* the path LoadQuestions was called with
    loadErr               \* the error LoadQuestions returned, NoCall before it

selectVars == <<QuestionsByCategory, level, selectedQuestions, randomCategory>>
analyzeVars == <<reply, category, analysis, err>>
sessionVars == <<session, apiKey, transport, errDetail, messages>>
summaryVars == <<analyses, summary, summaryErr>>
percentVars == <<scoreArg, criteriaCountArg, percentage>>
jsonVars == <<response, jsonData, unmarshaled>>
loadVars == <<files, path, loadErr>>

vars == <<selectVars, analyzeVars, sessionVars, summaryVars, percentVars,
          jsonVars, loadVars>>

\* a Go pointer is the empty set when nil and {v} when it points to v
Nil == {}
Ptr(v) == {v}
Deref(p) == CHOOSE v \in p : TRUE

NoCall == "no call"
NoError == "no error"
NoCategory == "none"
NoReply == {}

(***************************************************************************)
(* Small helpers                                                           *)
(***************************************************************************)
Range(s) == {s[i] : i \in 1..Len(s)}

RECURSIVE SumSeq(_)
SumSeq(s) == IF s = <<>> THEN 0 ELSE Head(s) + SumSeq(Tail(s))

(***************************************************************************)
(* The categories                                                          *)
(***************************************************************************)
CategoryOrder ==
    << "Purpose of Study", "Academic Background", "University Choice",
       "Financial Capability", "Post-Graduation Plans", "Immigration Intent" >>

QuestionSelectionRules == [c \in Range(CategoryOrder) |-> 1]

\* the characters of each category name, for sanitizeCategory
CategoryChars(c) ==
    CASE c = "Purpose of Study" ->
           <<"P","u","r","p","o","s","e"," ","o","f"," ","S","t","u","d","y">>
      [] c = "Academic Background" ->
           <<"A","c","a","d","e","m","i","c"," ",
             "B","a","c","k","g","r","o","u","n","d">>
      [] c = "University Choice" ->
           <<"U","n","i","v","e","r","s","i","t","y"," ","C","h","o","i","c","e">>
      [] c = "Financial Capability" ->
           <<"F","i","n","a","n","c","i","a","l"," ",
             "C","a","p","a","b","i","l","i","t","y">>
      [] c = "Post-Graduation Plans" ->
           <<"P","o","s","t","-","G","r","a","d","u","a","t","i","o","n"," ",
             "P","l","a","n","s">>
      [] c = "Immigration Intent" ->
           <<"I","m","m","i","g","r","a","t","i","o","n"," ",
             "I","n","t","e","n","t">>

AlphaNumeric ==
    {"a","b","c","d","e","f","g","h","i","j","k","l","m",
     "n","o","p","q","r","s","t","u","v","w","x","y","z",
     "A","B","C","D","E","F","G","H","I","J","K","L","M",
     "N","O","P","Q","R","S","T","U","V","W","X","Y","Z",
     "0","1","2","3","4","5","6","7","8","9"}

RECURSIVE sanitizeCategory(_)
sanitizeCategory(chars) ==
    IF chars = <<>> THEN <<>>
    ELSE LET char == Head(chars)
             rest == sanitizeCategory(Tail(chars))
         IN  IF char \in AlphaNumeric THEN <<char>> \o rest
             ELSE IF char = " " \/ char = "/" THEN <<"_">> \o rest
             ELSE rest

\* the suffix of the identifiers of each category, computed once
SanitizedName == [c \in Range(CategoryOrder) |-> sanitizeCategory(CategoryChars(c))]

\* fmt.Sprintf("q%d_%s", position, sanitizeCategory(category))
QuestionID(position, c) == [n |-> position, suffix |-> SanitizedName[c]]

NewQuestion(position, c, text) ==
    [ID |-> QuestionID(position, c), Category |-> c, Text |-> text]

(***************************************************************************)
(* The banks the selection is tried on.  Texts are numbers: OwnText(i, k)  *)
(* occurs only in the i-th category, SharedText may occur in every one.    *)
(***************************************************************************)
MaxVariants == 1   \* how many categories may depart from the bank's common shape

OwnText(i, k) == 10 * i + k
SharedText == OwnText(0, 1)

ListShapes == {"absent", "empty", "one", "two", "twice", "shared"}
CommonShapes == {"one", "two", "shared"}

ShapeList(shape, i) ==
    CASE shape = "empty"  -> <<>>
      [] shape = "one"    -> <<OwnText(i, 1)>>
      [] shape = "two"    -> <<OwnText(i, 1), OwnText(i, 2)>>
      [] shape = "twice"  -> <<OwnText(i, 1), OwnText(i, 1)>>
      [] shape = "shared" -> <<SharedText, OwnText(i, 1)>>

CategoryIndex(c) == CHOOSE k \in 1..Len(CategoryOrder) : CategoryOrder[k] = c

\* a bank: every category has the common shape, but those of `variant`
\* have their own shape; a category of shape "absent" is not in the map
MakeBank(common, variant) ==
    LET shapeOf(i) == IF i \in DOMAIN variant THEN variant[i] ELSE common
    IN  [c \in {CategoryOrder[i] : i \in {k \in 1..6 : shapeOf(k) # "absent"}} |->
            ShapeList(shapeOf(CategoryIndex(c)), CategoryIndex(c))]

Banks ==
    {MakeBank(common, variant) :
        common \in CommonShapes,
        variant \in UNION {[D -> ListShapes] :
                        D \in {X \in SUBSET (1..6) : Cardinality(X) <= MaxVariants}}}

Levels == {"easy", "medium", "hard", "", "default"}

(***************************************************************************)
(* SelectQuestionsForSession                                               *)
(***************************************************************************)
\* rand.Shuffle followed by taking the first `count` elements: any
\* arrangement of `count` elements taken at distinct positions
ShuffleTake(available, count) ==
    {[k \in 1..count |-> available[f[k]]] :
        f \in {g \in [1..count -> 1..Len(available)] :
                  \A a, b \in 1..count : a # b => g[a] # g[b]}}

\* `questions, ok := QuestionsByCategory[category]; !ok || len(questions) == 0`
HasQuestions(c) ==
    c \in DOMAIN QuestionsByCategory /\ Len(QuestionsByCategory[c]) > 0

\* the filter forgotten: every question of the list stays available
Unselected_none(questions, selectedTexts) == questions

\* the questions whose text is not in selectedTexts, in the list's order
Unselected(questions, selectedTexts) ==
    SelectSeq(questions, LAMBDA q : q \notin selectedTexts)

TextsOf(questions) == {questions[i].Text : i \in 1..Len(questions)}

\* the fourth easy category mistaken for "Financial Capability"
easyCategories_financial ==
    << "Purpose of Study", "Academic Background", "University Choice",
       "Financial Capability" >>

easyCategories ==
    << "Purpose of Study", "Academic Background", "University Choice",
       "Post-Graduation Plans" >>

allCategories == CategoryOrder

\* one question of every category of `cats` from the k-th on, each taken
\* from a shuffled copy of the whole list: the loop of the easy tier and the
\* first loop of the medium tier.  The set of the sequences it can build.
RECURSIVE OnePerCategory(_, _, _)
OnePerCategory(cats, k, selected) ==
    IF k > Len(cats) THEN {selected}
    ELSE IF ~HasQuestions(cats[k]) THEN OnePerCategory(cats, k + 1, selected)
    ELSE UNION {OnePerCategory(cats, k + 1,
                    Append(selected, NewQuestion(Len(selected) + 1, cats[k], pick[1]))) :
                pick \in ShuffleTake(QuestionsByCategory[cats[k]], 1)}

\* the extra question of the medium tier, drawn from category c
MediumExtra(selected, c) ==
    IF ~HasQuestions(c) THEN {selected}
    ELSE LET available == Unselected(QuestionsByCategory[c], TextsOf(selected))
         IN  IF Len(available) = 0 THEN {selected}
             ELSE {Append(selected, NewQuestion(Len(selected) + 1, c, pick[1])) :
                      pick \in ShuffleTake(available, 1)}

\* one question per category taken instead of two
TakeCount_one(available) == IF Len(available) < 1 THEN Len(available) ELSE 1

\* `count := 2; if len(available) < count { count = len(available) }`
TakeCount(available) == IF Len(available) < 2 THEN Len(available) ELSE 2

RECURSIVE AppendPicks(_, _, _)
AppendPicks(selected, c, pick) ==
    IF pick = <<>> THEN selected
    ELSE AppendPicks(Append(selected, NewQuestion(Len(selected) + 1, c, Head(pick))),
                     c, Tail(pick))

\* the loop of the hard tier given up at the first category without questions
RECURSIVE TwoPerCategory_stop(_, _)
TwoPerCategory_stop(k, selected) ==
    IF k > Len(allCategories) THEN {selected}
    ELSE IF ~HasQuestions(allCategories[k]) THEN {selected}
    ELSE LET c == allCategories[k]
             available == Unselected(QuestionsByCategory[c], TextsOf(selected))
         IN  IF Len(available) = 0 THEN TwoPerCategory_stop(k + 1, selected)
             ELSE UNION {TwoPerCategory_stop(k + 1, AppendPicks(selected, c, pick)) :
                         pick \in ShuffleTake(available, TakeCount(available))}

\* the loop of the hard tier from the k-th category on
RECURSIVE TwoPerCategory(_, _)
TwoPerCategory(k, selected) ==
    IF k > Len(allCategories) THEN {selected}
    ELSE IF ~HasQuestions(allCategories[k]) THEN TwoPerCategory(k + 1, selected)
    ELSE LET c == allCategories[k]
             available == Unselected(QuestionsByCategory[c], TextsOf(selected))
         IN  IF Len(available) = 0 THEN TwoPerCategory(k + 1, selected)
             ELSE UNION {TwoPerCategory(k + 1, AppendPicks(selected, c, pick)) :
                         pick \in ShuffleTake(available, TakeCount(available))}

SelectEasy(lv) ==
    /\ lv = "easy"
    /\ selectedQuestions' \in OnePerCategory(easyCategories, 1, <<>>)
    /\ randomCategory' = NoCategory

SelectMedium(lv) ==
    /\ lv = "medium"
    /\ \E first \in OnePerCategory(allCategories, 1, <<>>) :
       \E r \in 1..Len(allCategories) :
          /\ randomCategory' = allCategories[r]
          /\ selectedQuestions' \in MediumExtra(first, allCategories[r])

SelectHard(lv) ==
    /\ lv = "hard" \/ lv = ""
    /\ selectedQuestions' \in TwoPerCategory(1, <<>>)
    /\ randomCategory' = NoCategory

\* an unknown level served as the hard tier
SelectOther_hard(lv) ==
    /\ lv \notin {"easy", "medium", "hard", ""}
    /\ selectedQuestions' \in TwoPerCategory(1, <<>>)
    /\ randomCategory' = NoCategory

SelectOther(lv) ==
    /\ lv \notin {"easy", "medium", "hard", ""}
    /\ selectedQuestions' = <<>>
    /\ randomCategory' = NoCategory

\* the lists of the bank shuffled in place instead of a copy of them
SelectQuestionsForSession_inPlace ==
    /\ level = NoCall
    /\ \E lv \in Levels :
          /\ level' = lv
          /\ \/ SelectEasy(lv)
             \/ SelectMedium(lv)
             \/ SelectHard(lv)
             \/ SelectOther(lv)
    /\ QuestionsByCategory' =
          [c \in DOMAIN QuestionsByCategory |->
              [k \in 1..Len(QuestionsByCategory[c]) |->
                  QuestionsByCategory[c][Len(QuestionsByCategory[c]) + 1 - k]]]
    /\ UNCHANGED <<analyzeVars, sessionVars, summaryVars, percentVars, jsonVars, loadVars>>

SelectQuestionsForSession ==
    /\ level = NoCall
    /\ \E lv \in Levels :
          /\ level' = lv
          /\ \/ SelectEasy(lv)
             \/ SelectMedium(lv)
             \/ SelectHard(lv)
             \/ SelectOther(lv)
    /\ UNCHANGED <<QuestionsByCategory, analyzeVars, sessionVars, summaryVars,
                    percentVars, jsonVars, loadVars>>

(***************************************************************************)
(* The reply of the reasoning service.  Its text is a sequence of tokens   *)
(* that keeps what the validator looks at: braces, double quotes, white    *)
(* space, fence markers, and "x" for any other character.  The members of  *)
(* the JSON object that hold none of these are elided from the text; the   *)
(* values they give to the known fields are carried beside it (scores,     *)
(* total_score, classification), and wellTyped tells whether every known   *)
(* field has a value of the type the Go struct declares.                   *)
(* A fence marker, three backticks in the reply, is written ~~~ here.      *)
(***************************************************************************)
LBrace == "{"
RBrace == "}"
Quote == "\""
Space == " "
Prose == "x"
Fence == "~~~"
FenceJson == "~~~json"

Tokens == {LBrace, RBrace, Quote, Space, Prose, Fence, FenceJson}

\* a criterion score is a *int: Null, or Ptr(n)
Null == Nil

Criteria ==
    << "migration_intent", "financial_understanding", "academic_credibility",
       "specificity_research", "consistency", "communication_quality",
       "red_flags" >>

CriteriaSet == Range(Criteria)

\* strings.TrimSpace
RECURSIVE TrimLeft(_)
TrimLeft(s) == IF s # <<>> /\ Head(s) = Space THEN TrimLeft(Tail(s)) ELSE s

RECURSIVE TrimRight(_)
TrimRight(s) ==
    IF s # <<>> /\ s[Len(s)] = Space THEN TrimRight(SubSeq(s, 1, Len(s) - 1)) ELSE s

TrimSpace(s) == TrimRight(TrimLeft(s))

\* strings.TrimPrefix and strings.TrimSuffix
TrimPrefix(s, prefix) ==
    IF Len(s) >= Len(prefix) /\ SubSeq(s, 1, Len(prefix)) = prefix
    THEN SubSeq(s, Len(prefix) + 1, Len(s))
    ELSE s

TrimSuffix(s, suffix) ==
    IF Len(s) >= Len(suffix) /\ SubSeq(s, Len(s) - Len(suffix) + 1, Len(s)) = suffix
    THEN SubSeq(s, 1, Len(s) - Len(suffix))
    ELSE s

\* the four lines that remove the markdown code fences
StripFences(content) ==
    TrimSpace(TrimSuffix(TrimPrefix(TrimPrefix(TrimSpace(content),
        <<FenceJson>>), <<Fence>>), <<Fence>>))

\* strings.Index(content, "{"): the 0-based index of the first brace, or -1
IndexLBrace(content) ==
    IF \E i \in 1..Len(content) : content[i] = LBrace
    THEN (CHOOSE i \in 1..Len(content) :
            content[i] = LBrace /\ \A k \in 1..(i - 1) : content[k] # LBrace) - 1
    ELSE -1

\* the scan stopped at the end of the text counts as a match
RECURSIVE MatchingBrace_toEnd(_, _, _)
MatchingBrace_toEnd(content, i, braceCount) ==
    IF i >= Len(content) THEN Len(content)
    ELSE IF content[i + 1] = LBrace
         THEN MatchingBrace_toEnd(content, i + 1, braceCount + 1)
    ELSE IF content[i + 1] = RBrace
         THEN IF braceCount - 1 = 0 THEN i + 1
              ELSE MatchingBrace_toEnd(content, i + 1, braceCount - 1)
    ELSE MatchingBrace_toEnd(content, i + 1, braceCount)

\* the loop `for i := jsonStart; i < len(content); i++` (0-based i):
\* jsonEnd, or -1 when the count never returns to zero
RECURSIVE MatchingBrace(_, _, _)
MatchingBrace(content, i, braceCount) ==
    IF i >= Len(content) THEN -1
    ELSE IF content[i + 1] = LBrace
         THEN MatchingBrace(content, i + 1, braceCount + 1)
    ELSE IF content[i + 1] = RBrace
         THEN IF braceCount - 1 = 0 THEN i + 1
              ELSE MatchingBrace(content, i + 1, braceCount - 1)
    ELSE MatchingBrace(content, i + 1, braceCount)

\* the syntax check of json.Unmarshal on the elided text: one object, whose
\* members are strings and objects; a string runs from a quote to the next
\* one and may hold any other token; white space may separate the members
RECURSIVE ValidJSON(_, _, _, _)
ValidJSON(text, i, depth, inString) ==
    IF i > Len(text) THEN depth = 0 /\ ~inString /\ Len(text) > 0
    ELSE IF inString THEN ValidJSON(text, i + 1, depth, text[i] # Quote)
    ELSE IF text[i] = LBrace
         THEN (depth > 0 \/ i = 1) /\ ValidJSON(text, i + 1, depth + 1, FALSE)
    ELSE IF text[i] = RBrace
         THEN depth > 0 /\ ValidJSON(text, i + 1, depth - 1, FALSE)
    ELSE IF text[i] = Quote
         THEN depth > 0 /\ ValidJSON(text, i + 1, depth, TRUE)
    ELSE IF text[i] = Space
         THEN depth > 0 /\ ValidJSON(text, i + 1, depth, FALSE)
    ELSE FALSE

\* calculateTotalScore: the sum of the criteria that are not nil
calculateTotalScore(scores) ==
    SumSeq([k \in 1..Len(Criteria) |->
              IF scores[Criteria[k]] # Null THEN Deref(scores[Criteria[k]]) ELSE 0])

\* countRelevantCriteria: how many criteria are not nil
countRelevantCriteria(scores) ==
    Cardinality({c \in CriteriaSet : scores[c] # Null})

\* the cutoffs of the three exact rows moved up by one
Tier_strict(totalScore, excellent, good, average) ==
    IF totalScore > excellent THEN "Excellent"
    ELSE IF totalScore > good THEN "Good"
    ELSE IF totalScore > average THEN "Average"
    ELSE "Weak"

\* the if/else chain of one row of the table
Tier(totalScore, excellent, good, average) ==
    IF totalScore >= excellent THEN "Excellent"
    ELSE IF totalScore >= good THEN "Good"
    ELSE IF totalScore >= average THEN "Average"
    ELSE "Weak"

\* the default row: float64(totalScore) / float64(maxScore) * 100 >= p, which
\* for the integers of this model is totalScore * 100 >= p * maxScore
PercentTier(totalScore, maxScore) ==
    IF totalScore * 100 >= 85 * maxScore THEN "Excellent"
    ELSE IF totalScore * 100 >= 70 * maxScore THEN "Good"
    ELSE IF totalScore * 100 >= 50 * maxScore THEN "Average"
    ELSE "Weak"

getClassificationFromScore(totalScore, criteriaCount) ==
    IF criteriaCount = 0 THEN "Weak"
    ELSE LET maxScore == criteriaCount * 5
         IN  CASE criteriaCount = 3 -> Tier(totalScore, 13, 10, 7)
               [] criteriaCount = 4 -> Tier(totalScore, 17, 13, 9)
               [] criteriaCount = 5 -> Tier(totalScore, 21, 17, 12)
               [] OTHER -> PercentTier(totalScore, maxScore)

\* the stated total kept as the reply gave it
Recompute_trusting(decoded) ==
    [Scores |-> decoded.scores @@ [total_score |-> decoded.total_score],
     Classification |->
        getClassificationFromScore(decoded.total_score,
                                   countRelevantCriteria(decoded.scores))]

\* lines 408-420: total_score and classification recomputed from the scores
Recompute(decoded) ==
    LET total == calculateTotalScore(decoded.scores)
        criteriaCount == countRelevantCriteria(decoded.scores)
    IN  [Scores |-> decoded.scores @@ [total_score |-> total],
         Classification |-> getClassificationFromScore(total, criteriaCount)]

(***************************************************************************)
(* The JSON form of an AnalysisResponse: encoding/json over the struct     *)
(* tags of AnalysisScores, FeedbackByCriterion, StructuredFeedback and     *)
(* AnalysisResponse.  A Go string is a sequence of characters.  A JSON     *)
(* text is the tree of what was written: <<"null">>, <<"number", digits>>, *)
(* <<"string", escaped characters>>, <<"array", elements>> and             *)
(* <<"object", members>>, a member being <<key, text>>.                    *)
(***************************************************************************)
Backslash == "\\"
Less == "<"
EscapedLess == "\\u003c"   \* the six characters written for "<"

Chars == {"a", Quote, Backslash, Less}

Digit == <<"0", "1", "2", "3", "4", "5", "6", "7", "8", "9">>

RECURSIVE Digits(_)
Digits(n) ==
    IF n < 10 THEN <<Digit[n + 1]>>
    ELSE Digits(n \div 10) \o <<Digit[(n % 10) + 1]>>

Itoa(n) == IF n < 0 THEN <<"-">> \o Digits(-n) ELSE Digits(n)

DigitValue(ch) == (CHOOSE k \in 1..Len(Digit) : Digit[k] = ch) - 1

RECURSIVE ParseDigits(_, _)
ParseDigits(chars, acc) ==
    IF chars = <<>> THEN acc
    ELSE ParseDigits(Tail(chars), 10 * acc + DigitValue(Head(chars)))

Atoi(chars) ==
    IF Head(chars) = "-" THEN -ParseDigits(Tail(chars), 0)
    ELSE ParseDigits(chars, 0)

\* the characters between the quotes of a JSON string
RECURSIVE Escape(_)
Escape(s) ==
    IF s = <<>> THEN <<>>
    ELSE LET ch == Head(s)
             written == IF ch \in {Quote, Backslash} THEN <<Backslash, ch>>
                        ELSE IF ch = Less THEN <<EscapedLess>>
                        ELSE <<ch>>
         IN  written \o Escape(Tail(s))

RECURSIVE Unescape(_)
Unescape(s) ==
    IF s = <<>> THEN <<>>
    ELSE IF Head(s) = Backslash THEN <<s[2]>> \o Unescape(Tail(Tail(s)))
    ELSE IF Head(s) = EscapedLess THEN <<Less>> \o Unescape(Tail(s))
    ELSE <<Head(s)>> \o Unescape(Tail(s))

JsonNull == <<"null">>
IsNull(j) == j[1] = "null"

MarshalInt(n) == <<"number", Itoa(n)>>
MarshalIntPtr(p) == IF p = Nil THEN JsonNull ELSE MarshalInt(Deref(p))
MarshalString(s) == <<"string", Escape(s)>>

\* a nil slice is written null, a slice with no element []
MarshalStrings(p) ==
    IF p = Nil THEN JsonNull
    ELSE <<"array", [i \in 1..Len(Deref(p)) |-> MarshalString(Deref(p)[i])]>>

MarshalScores(sc) ==
    <<"object",
      [i \in 1..Len(Criteria) |-> <<Criteria[i], MarshalIntPtr(sc[Criteria[i]])>>]
        \o << <<"total_score", MarshalInt(sc["total_score"])>> >> >>

MarshalByCriterion(f) ==
    <<"object",
      [i \in 1..Len(Criteria) |-> <<Criteria[i], MarshalString(f[Criteria[i]])>>]>>

MarshalFeedback(f) ==
    <<"object",
      << <<"overall", MarshalString(f.Overall)>>,
         <<"by_criterion", MarshalByCriterion(f.ByCriterion)>>,
         <<"improvements", MarshalStrings(f.Improvements)>> >> >>

\* json.Marshal of an AnalysisResponse
Marshal(v) ==
    <<"object",
      << <<"scores", MarshalScores(v.Scores)>>,
         <<"classification", MarshalString(v.Classification)>>,
         <<"feedback", MarshalFeedback(v.Feedback)>> >> >>

HasMember(j, key) == \E i \in 1..Len(j[2]) : j[2][i][1] = key

\* the text of a member; null when the object is null or has no such member,
\* which leaves a field at its zero value just as a null does
Field(j, key) ==
    IF IsNull(j) \/ ~HasMember(j, key) THEN JsonNull
    ELSE j[2][CHOOSE i \in 1..Len(j[2]) : j[2][i][1] = key][2]

\* a decoder that turns null into a pointer to 0
UnmarshalIntPtr_zero(j) == IF IsNull(j) THEN Ptr(0) ELSE Ptr(Atoi(j[2]))

UnmarshalIntPtr(j) == IF IsNull(j) THEN Nil ELSE Ptr(Atoi(j[2]))
UnmarshalInt(j) == IF IsNull(j) THEN 0 ELSE Atoi(j[2])
UnmarshalString(j) == IF IsNull(j) THEN <<>> ELSE Unescape(j[2])

UnmarshalStrings(j) ==
    IF IsNull(j) THEN Nil
    ELSE Ptr([i \in 1..Len(j[2]) |-> UnmarshalString(j[2][i])])

UnmarshalScores(j) ==
    [c \in CriteriaSet |-> UnmarshalIntPtr(Field(j, c))]
        @@ [total_score |-> UnmarshalInt(Field(j, "total_score"))]

UnmarshalByCriterion(j) == [c \in CriteriaSet |-> UnmarshalString(Field(j, c))]

UnmarshalFeedback(j) ==
    [Overall |-> UnmarshalString(Field(j, "overall")),
     ByCriterion |-> UnmarshalByCriterion(Field(j, "by_criterion")),
     Improvements |-> UnmarshalStrings(Field(j, "improvements"))]

\* json.Unmarshal into a zero AnalysisResponse
Unmarshal(j) ==
    [Scores |-> UnmarshalScores(Field(j, "scores")),
     Classification |-> UnmarshalString(Field(j, "classification")),
     Feedback |-> UnmarshalFeedback(Field(j, "feedback"))]

JSONMarshal ==
    /\ jsonData = Nil
    /\ jsonData' = Ptr(Marshal(response))
    /\ UNCHANGED <<response, unmarshaled>>
    /\ UNCHANGED <<selectVars, analyzeVars, sessionVars, summaryVars, percentVars,
                   loadVars>>

JSONUnmarshal ==
    /\ jsonData # Nil
    /\ unmarshaled = Nil
    /\ unmarshaled' = Ptr(Unmarshal(Deref(jsonData)))
    /\ UNCHANGED <<response, jsonData>>
    /\ UNCHANGED <<selectVars, analyzeVars, sessionVars, summaryVars, percentVars,
                   loadVars>>

ErrNoJSON == "no JSON object found in response"
ErrUnmatched == "unmatched braces in JSON response"
ErrParse == "failed to parse analysis"

\* what httpClient.Do, io.ReadAll and the decoding of the body come to
Transports ==
    {"send failed", "read failed", "status not 200", "body not a GPTResponse",
     "no choices", "one choice"}

\* The error values.  fmt.Errorf gives a *fmt.wrapError when the format has
\* a %w and an *errors.errorString otherwise; carries names what the format
\* arguments put into the message.
ErrorDetail(e) ==
    IF e = NoError THEN [type |-> "nil", carries |-> {}]
    ELSE IF e \in {"failed to send request", "failed to read response", "failed to unmarshal response", ErrParse}
         THEN [type |-> "*fmt.wrapError", carries |-> {"the wrapped error"}]
    ELSE IF e = "API error (status)"
         THEN [type |-> "*errors.errorString", carries |-> {"resp.StatusCode", "string(body)"}]
    ELSE [type |-> "*errors.errorString", carries |-> {}]

\* callGPTAPI from `content := gptResp.Choices[0].Message.Content` on, for a
\* reply that arrived with status 200 and one choice: <<analysis, error>>
Validate(r) ==
    LET content == StripFences(r.content)
        jsonStart == IndexLBrace(content)
        jsonEnd == MatchingBrace(content, jsonStart, 0)
        jsonContent == SubSeq(content, jsonStart + 1, jsonEnd)
    IN  IF jsonStart = -1 THEN <<Nil, ErrNoJSON>>
        ELSE IF jsonEnd = -1 THEN <<Nil, ErrUnmatched>>
        ELSE IF ~(ValidJSON(jsonContent, 1, 0, FALSE) /\ r.wellTyped)
             THEN <<Nil, ErrParse>>
        ELSE <<Ptr(Recompute(r)), NoError>>

\* categories that strings.TrimSpace turns into ""
BlankCategories == {"", " "}

\* fmt.Sprintf, as the parts it writes one after the other
UserContent(c, q, a) ==
    IF c \notin BlankCategories
    THEN <<"Category: ", c, "\nQuestion: ", q, "\nStudent's Answer: ", a>>
    ELSE <<"Question: ", q, "\nStudent's Answer: ", a>>

GPTMessage(role, content) == [Role |-> role, Content |-> content]

\* the stored analyses left out of the conversation
RECURSIVE SessionMessages_questionsOnly(_)
SessionMessages_questionsOnly(answers) ==
    IF answers = <<>> THEN <<GPTMessage("system", <<"va.systemPrompt">>)>>
    ELSE LET prevAnswer == answers[Len(answers)]
         IN  SessionMessages_questionsOnly(SubSeq(answers, 1, Len(answers) - 1))
             \o <<GPTMessage("user",
                     UserContent("", prevAnswer.QuestionText, prevAnswer.Text))>>

\* the messages AnalyzeAnswerWithSession builds from the answers so far
RECURSIVE SessionMessages(_)
SessionMessages(answers) ==
    IF answers = <<>> THEN <<GPTMessage("system", <<"va.systemPrompt">>)>>
    ELSE LET prevAnswer == answers[Len(answers)]
             before == SessionMessages(SubSeq(answers, 1, Len(answers) - 1))
             user == GPTMessage("user",
                        UserContent("", prevAnswer.QuestionText, prevAnswer.Text))
         IN  IF prevAnswer.Analysis # Nil
             THEN before \o <<user, GPTMessage("assistant",
                                       Marshal(Deref(prevAnswer.Analysis)))>>
             ELSE before \o <<user>>

\* <<analysis, error>> of callGPTAPI after the request was built
Exchange(r) ==
    IF transport = "send failed" THEN <<Nil, "failed to send request">>
    ELSE IF transport = "read failed" THEN <<Nil, "failed to read response">>
    ELSE IF transport = "status not 200" THEN <<Nil, "API error (status)">>
    ELSE IF transport = "body not a GPTResponse" THEN <<Nil, "failed to unmarshal response">>
    ELSE IF transport = "no choices" THEN <<Nil, "empty response from API">>
    ELSE Validate(r)

callGPTAPI(sessionMessages, r) ==
    /\ messages' = Append(sessionMessages,
                          GPTMessage("user", UserContent(category, "question", "answer")))
    /\ analysis' = Exchange(r)[1]
    /\ err' = Exchange(r)[2]

\* an analyzer that records the answer in the session it was given
AnalyzeAnswerWithSession_recording ==
    /\ reply # NoReply
    /\ analysis = Nil /\ err = NoError
    /\ IF apiKey = ""
       THEN analysis' = Nil /\ err' = "API key not set" /\ UNCHANGED messages
       ELSE callGPTAPI(SessionMessages(session.Answers), Deref(reply))
    /\ errDetail' = ErrorDetail(err')
    /\ session' = [session EXCEPT
                     !.Answers = Append(@, [QuestionID |-> "", QuestionText |-> "question",
                                            Text |-> "answer", Analysis |-> analysis']),
                     !.QuestionIndex = @ + 1]
    /\ UNCHANGED <<reply, category, apiKey, transport>>
    /\ UNCHANGED <<selectVars, summaryVars, percentVars, jsonVars, loadVars>>

\* AnalyzeAnswerWithSession(session, category, question, answer) with the
\* outcome of the exchange and the reply the reasoning service gives
AnalyzeAnswerWithSession ==
    /\ reply # NoReply
    /\ analysis = Nil /\ err = NoError
    /\ IF apiKey = ""
       THEN analysis' = Nil /\ err' = "API key not set" /\ UNCHANGED messages
       ELSE callGPTAPI(SessionMessages(session.Answers), Deref(reply))
    /\ errDetail' = ErrorDetail(err')
    /\ UNCHANGED <<reply, category, session, apiKey, transport>>
    /\ UNCHANGED <<selectVars, summaryVars, percentVars, jsonVars, loadVars>>

(***************************************************************************)
(* GenerateSessionSummary.  A float64 quotient of two integers is kept as  *)
(* the exact fraction; a list built by ranging over a Go map is kept as    *)
(* the bag of its elements, the order of a map range being unspecified.    *)
(***************************************************************************)

\* float64(a) / float64(b)
FloatDiv(a, b) == [num |-> a, den |-> b]

\* q >= k for a fraction q with a positive denominator
AtLeast(q, k) == q.num >= k * q.den

\* int(q): the fraction cut toward zero
Truncate(q) ==
    IF q.num >= 0 THEN q.num \div q.den ELSE -((-q.num) \div q.den)

\* int(float64(maxScore) * p / 100) for the percentages 85, 70 and 50
Threshold(maxScore, p) == (maxScore * p) \div 100

getGradeFromScore(sc, criteriaCount) ==
    IF criteriaCount = 0 THEN "D"
    ELSE LET maxScore == criteriaCount * 5
         IN  IF sc >= Threshold(maxScore, 85) THEN "A"
             ELSE IF sc >= Threshold(maxScore, 70) THEN "B"
             ELSE IF sc >= Threshold(maxScore, 50) THEN "C"
             ELSE "D"

generateRecommendation(avgScore) ==
    IF AtLeast(avgScore, 32) THEN "Excellent performance!"
    ELSE IF AtLeast(avgScore, 25) THEN "Good foundation."
    ELSE IF AtLeast(avgScore, 18) THEN "You need more practice."
    ELSE "Significant improvement needed."

formatCriterionName(criterion) ==
    CASE criterion = "migration_intent" -> "Strong return intent"
      [] criterion = "financial_understanding" -> "Financial understanding"
      [] criterion = "academic_credibility" -> "Academic credibility"
      [] criterion = "specificity_research" -> "Specificity & research"
      [] criterion = "consistency" -> "Consistency"
      [] criterion = "communication_quality" -> "Communication quality"
      [] criterion = "red_flags" -> "No red flags"
      [] OTHER -> criterion

\* the keys extractCommonRedFlags sets in flagMap
RedFlagDescription ==
    [c \in CriteriaSet |->
        CASE c = "migration_intent" -> "Shows potential immigration intent"
          [] c = "financial_understanding" -> "Poor financial understanding or planning"
          [] c = "academic_credibility" -> "Weak academic fit or credibility"
          [] c = "specificity_research" -> "Lacks specific knowledge or research"
          [] c = "consistency" -> "Inconsistent answers or contradictions"
          [] c = "communication_quality" -> "Poor communication or clarity"
          [] c = "red_flags" -> "Major red flags detected"]

\* criteriaCount[c] of extractCommonStrengths: the records with c at 4 or more
StrongCount(recs, c) ==
    Cardinality({i \in 1..Len(recs) :
        recs[i].Analysis.Scores[c] # Nil /\ Deref(recs[i].Analysis.Scores[c]) >= 4})

\* criteriaCount[c] of extractCommonWeaknesses: the records with c at 3 or less
WeakCount(recs, c) ==
    Cardinality({i \in 1..Len(recs) :
        recs[i].Analysis.Scores[c] # Nil /\ Deref(recs[i].Analysis.Scores[c]) <= 3})

\* the records that set the red flag of c
FlagCount(recs, c) ==
    Cardinality({i \in 1..Len(recs) :
        recs[i].Analysis.Scores[c] # Nil /\ Deref(recs[i].Analysis.Scores[c]) <= 2})

\* one formatCriterionName(c) appended for each c of a set of map keys
RECURSIVE AppendNames(_)
AppendNames(keys) ==
    IF keys = {} THEN EmptyBag
    ELSE LET c == CHOOSE k \in keys : TRUE
         IN  SetToBag({formatCriterionName(c)}) (+) AppendNames(keys \ {c})

\* a map has a key only once it was incremented: count[c] >= 1
extractCommonStrengths(recs) ==
    AppendNames({c \in CriteriaSet :
        StrongCount(recs, c) >= 1 /\ StrongCount(recs, c) >= Len(recs) \div 2})

extractCommonWeaknesses(recs) ==
    AppendNames({c \in CriteriaSet :
        WeakCount(recs, c) >= 1 /\ WeakCount(recs, c) >= Len(recs) \div 2})

\* red flags appended once for each record that triggers them
RECURSIVE extractCommonRedFlags_perRecord(_)
extractCommonRedFlags_perRecord(recs) ==
    IF recs = <<>> THEN EmptyBag
    ELSE SetToBag({RedFlagDescription[c] : c \in {k \in CriteriaSet : FlagCount(<<Head(recs)>>, k) >= 1}})
            (+) extractCommonRedFlags_perRecord(Tail(recs))

\* the keys of flagMap, each appended once
extractCommonRedFlags(recs) ==
    SetToBag({RedFlagDescription[c] : c \in {k \in CriteriaSet : FlagCount(recs, k) >= 1}})

RECURSIVE SumTotalScore(_)
SumTotalScore(recs) ==
    IF recs = <<>> THEN 0
    ELSE Head(recs).Analysis.Scores["total_score"] + SumTotalScore(Tail(recs))

RECURSIVE SumCriteriaCount(_)
SumCriteriaCount(recs) ==
    IF recs = <<>> THEN 0
    ELSE countRelevantCriteria(Head(recs).Analysis.Scores) + SumCriteriaCount(Tail(recs))

\* a summary that averages with an integer division
SessionSummary_whole(recs) ==
    LET whole == FloatDiv(SumTotalScore(recs) \div Len(recs), 1)
    IN  [TotalQuestions |-> Len(recs),
         AverageScore |-> whole,
         OverallGrade |-> getGradeFromScore(Truncate(whole), 1),
         StrongAreas |-> extractCommonStrengths(recs),
         WeakAreas |-> extractCommonWeaknesses(recs),
         CommonRedFlags |-> extractCommonRedFlags(recs),
         Recommendation |-> generateRecommendation(whole)]

\* the SessionSummary built for a list that is not empty
SessionSummary(recs) ==
    LET totalScore == SumTotalScore(recs)
        totalCriteriaCount == SumCriteriaCount(recs)
        avgScore == FloatDiv(totalScore, Len(recs))
        quotient == totalCriteriaCount \div Len(recs)
        avgCriteriaCount == IF quotient = 0 THEN 1 ELSE quotient
    IN  [TotalQuestions |-> Len(recs),
         AverageScore |-> avgScore,
         OverallGrade |-> getGradeFromScore(Truncate(avgScore), avgCriteriaCount),
         StrongAreas |-> extractCommonStrengths(recs),
         WeakAreas |-> extractCommonWeaknesses(recs),
         CommonRedFlags |-> extractCommonRedFlags(recs),
         Recommendation |-> generateRecommendation(avgScore)]

\* a summarizer that returns the zero summary for an empty list
GenerateSessionSummary_zero ==
    /\ summaryErr = NoCall
    /\ summary' = IF analyses = <<>>
                  THEN Ptr([TotalQuestions |-> 0, AverageScore |-> FloatDiv(0, 1),
                            OverallGrade |-> "", StrongAreas |-> EmptyBag,
                            WeakAreas |-> EmptyBag, CommonRedFlags |-> EmptyBag,
                            Recommendation |-> ""])
                  ELSE Ptr(SessionSummary(analyses))
    /\ summaryErr' = NoError
    /\ UNCHANGED analyses
    /\ UNCHANGED <<selectVars, analyzeVars, sessionVars, percentVars, jsonVars, loadVars>>

GenerateSessionSummary ==
    /\ summaryErr = NoCall
    /\ IF Len(analyses) = 0
       THEN summary' = Nil /\ summaryErr' = "no analyses provided"
       ELSE summary' = Ptr(SessionSummary(analyses)) /\ summaryErr' = NoError
    /\ UNCHANGED analyses
    /\ UNCHANGED <<selectVars, analyzeVars, sessionVars, percentVars, jsonVars, loadVars>>

(***************************************************************************)
(* ScoreToPercentage.  The float64 result is kept as the exact fraction    *)
(* float64(score-minScore) * 100 / float64(scoreRange).                    *)
(***************************************************************************)
\* the conversion without the two clamps
ScoreToPercentage_unclamped(sc, criteriaCount) ==
    IF criteriaCount = 0 THEN FloatDiv(0, 1)
    ELSE LET maxScore == criteriaCount * 5
             minScore == criteriaCount * 1
             scoreRange == maxScore - minScore
         IN  IF scoreRange = 0 THEN FloatDiv(100, 1)
             ELSE FloatDiv((sc - minScore) * 100, scoreRange)

ScoreToPercentage(sc, criteriaCount) ==
    IF criteriaCount = 0 THEN FloatDiv(0, 1)
    ELSE LET maxScore == criteriaCount * 5
             minScore == criteriaCount * 1
             low == IF sc < minScore THEN minScore ELSE sc
             clamped == IF low > maxScore THEN maxScore ELSE low
             scoreRange == maxScore - minScore
         IN  IF scoreRange = 0 THEN FloatDiv(100, 1)
             ELSE FloatDiv((clamped - minScore) * 100, scoreRange)

CallScoreToPercentage ==
    /\ percentage = Nil
    /\ percentage' = Ptr(ScoreToPercentage(scoreArg, criteriaCountArg))
    /\ UNCHANGED <<scoreArg, criteriaCountArg>>
    /\ UNCHANGED <<selectVars, analyzeVars, sessionVars, summaryVars, jsonVars, loadVars>>

(***************************************************************************)
(* LoadQuestions.  A file is [exists, wellFormed, categories]: whether     *)
(* os.ReadFile finds it, whether its text decodes into a                   *)
(* map[string][]string, and the map it decodes into.                       *)
(***************************************************************************)

\* the paths InitQuestions tries, in order (the paths it builds from the
\* working directory and from the executable name the same two files)
possiblePaths == <<"interview/questions.json", "questions.json">>

Paths == Range(possiblePaths)

\* <<QuestionsByCategory, error>> after LoadQuestions on a file, with the
\* bank it found
Load(bank, file) ==
    IF ~file.exists THEN <<bank, "read questions file">>
    ELSE IF ~file.wellFormed THEN <<bank, "unmarshal questions">>
    ELSE <<file.categories,
           IF \E c \in DOMAIN QuestionSelectionRules : c \notin DOMAIN file.categories
           THEN "required category not found in questions file"
           ELSE NoError>>

LoadQuestions(p) ==
    /\ loadErr = NoCall
    /\ path' = p
    /\ QuestionsByCategory' = Load(QuestionsByCategory, files[p])[1]
    /\ loadErr' = Load(QuestionsByCategory, files[p])[2]
    /\ UNCHANGED <<files, level, selectedQuestions, randomCategory>>
    /\ UNCHANGED <<analyzeVars, sessionVars, summaryVars, percentVars, jsonVars>>

\* the loop of InitQuestions from the k-th path on:
\* <<QuestionsByCategory, error, the last path tried>>
RECURSIVE TryPaths(_, _)
TryPaths(k, bank) ==
    LET loaded == Load(bank, files[possiblePaths[k]])
    IN  IF loaded[2] = NoError THEN <<loaded[1], NoError, possiblePaths[k]>>
        ELSE IF k = Len(possiblePaths)
        THEN <<loaded[1], "could not load questions.json from any of the tried paths",
               possiblePaths[k]>>
        ELSE TryPaths(k + 1, loaded[1])

InitQuestions ==
    /\ loadErr = NoCall
    /\ QuestionsByCategory' = TryPaths(1, QuestionsByCategory)[1]
    /\ loadErr' = TryPaths(1, QuestionsByCategory)[2]
    /\ path' = TryPaths(1, QuestionsByCategory)[3]
    /\ UNCHANGED <<files, level, selectedQuestions, randomCategory>>
    /\ UNCHANGED <<analyzeVars, sessionVars, summaryVars, percentVars, jsonVars>>

(***************************************************************************)
(* The idle state of each component                                        *)
(***************************************************************************)
NewSession ==
    [SelectedQuestions |-> <<>>, QuestionIndex |-> 0, Answers |-> <<>>,
     Status |-> "active", Summary |-> Nil]

ZeroResponse == Unmarshal(JsonNull)

NoSelection ==
    /\ QuestionsByCategory = MakeBank("two", <<>>)
    /\ level = NoCall
    /\ selectedQuestions = <<>>
    /\ randomCategory = NoCategory

NoAnalyze ==
    /\ reply = NoReply
    /\ category = ""
    /\ analysis = Nil
    /\ err = NoError

\* a session with no answer yet, a key, and an exchange that goes well
PlainSession ==
    /\ session = NewSession
    /\ apiKey = "key"
    /\ transport = "one choice"
    /\ errDetail = ErrorDetail(NoError)
    /\ messages = <<>>

NoSummary ==
    /\ analyses = <<>>
    /\ summary = Nil
    /\ summaryErr = NoCall

NoPercentage ==
    /\ scoreArg = 0
    /\ criteriaCountArg = 0
    /\ percentage = Nil

NoJSON ==
    /\ response = ZeroResponse
    /\ jsonData = Nil
    /\ unmarshaled = Nil

NoLoad ==
    /\ files = <<>>
    /\ path = ""
    /\ loadErr = NoCall

Init ==
    /\ QuestionsByCategory \in Banks
    /\ level = NoCall
    /\ selectedQuestions = <<>>
    /\ randomCategory = NoCategory
    /\ NoAnalyze /\ PlainSession /\ NoSummary /\ NoPercentage /\ NoJSON /\ NoLoad

Next == SelectQuestionsForSession

Spec == Init /\ [][Next]_vars

(***************************************************************************)
(* The replies the validator is tried on                                   *)
(***************************************************************************)
MaxLen == 6   \* the longest reply text, in tokens

SeqsUpTo(S, n) == UNION {[1..k -> S] : k \in 0..n}

\* criterion scores a reply may carry: inside 1..5 and outside
ReplyScoreValues == {0, 2, 5, 6}

StatedTotals == {0, 13}
StatedClassifications == {"Excellent", "Weak"}

AllNull == [c \in CriteriaSet |-> Null]

SampleScores ==
    [AllNull EXCEPT !["communication_quality"] = Ptr(4), !["red_flags"] = Ptr(5)]

\* every text up to MaxLen tokens, with one set of values
InitReply ==
    /\ NoSelection /\ PlainSession /\ NoSummary /\ NoPercentage /\ NoJSON /\ NoLoad
    /\ \E content \in SeqsUpTo(Tokens, MaxLen) :
          reply = Ptr([content |-> content, scores |-> SampleScores,
                       total_score |-> 9, classification |-> "Good",
                       wellTyped |-> TRUE])
    /\ category = "Financial Capability"
    /\ analysis = Nil
    /\ err = NoError

NextReply == AnalyzeAnswerWithSession

SpecReply == InitReply /\ [][NextReply]_vars

SampleContents ==
    { <<LBrace, RBrace>>,
      <<FenceJson, Space, LBrace, RBrace, Space, Fence>>,
      <<Prose, LBrace, Quote, Prose, Quote, RBrace, Prose>> }

\* every combination of scores with a plain text, and every category with
\* scores that are absent or 4, well typed or not, in each sample text
InitScores ==
    /\ NoSelection /\ PlainSession /\ NoSummary /\ NoPercentage /\ NoJSON /\ NoLoad
    /\ analysis = Nil
    /\ err = NoError
    /\ \/ /\ category = "Purpose of Study"
          /\ \E scores \in [CriteriaSet -> {Ptr(n) : n \in ReplyScoreValues} \cup {Null}],
                total \in StatedTotals, class \in StatedClassifications :
                reply = Ptr([content |-> <<LBrace, RBrace>>, scores |-> scores,
                             total_score |-> total, classification |-> class,
                             wellTyped |-> TRUE])
       \/ /\ category \in Range(CategoryOrder) \cup {""}
          /\ \E scores \in [CriteriaSet -> {Null, Ptr(4)}], typed \in BOOLEAN,
                content \in SampleContents :
                reply = Ptr([content |-> content, scores |-> scores,
                             total_score |-> 20, classification |-> "Excellent",
                             wellTyped |-> typed])

NextScores == AnalyzeAnswerWithSession

SpecScores == InitScores /\ [][NextScores]_vars

(***************************************************************************)
(* The sessions AnalyzeAnswerWithSession is tried on                       *)
(***************************************************************************)
MaxAnswers == 2   \* the most answers a session holds before the call

SampleResponse ==
    [Scores |-> SampleScores @@ [total_score |-> 9],
     Classification |-> <<"G", "o", "o", "d">>,
     Feedback |-> [Overall |-> <<"a", Quote>>,
                   ByCriterion |-> [c \in CriteriaSet |-> <<"a">>],
                   Improvements |-> Ptr(<<<<Less>>>>)]]

\* active sessions with 0..MaxAnswers answers, each analyzed or not
SampleSessions ==
    LET questions == [k \in 1..(MaxAnswers + 1) |->
                        NewQuestion(k, CategoryOrder[k], OwnText(k, 1))]
        answer(k, analyzed) ==
            [QuestionID |-> questions[k].ID,
             QuestionText |-> questions[k].Text,
             Text |-> OwnText(k, 2),
             Analysis |-> IF analyzed THEN Ptr(SampleResponse) ELSE Nil]
    IN  { [SelectedQuestions |-> questions,
           QuestionIndex |-> Len(analyzed),
           Answers |-> [k \in 1..Len(analyzed) |-> answer(k, analyzed[k])],
           Status |-> "active",
           Summary |-> Nil] : analyzed \in SeqsUpTo(BOOLEAN, MaxAnswers) }

\* a reply that decodes, and one for each way of failing to
SampleReplies ==
    { [content |-> c[1], scores |-> SampleScores, total_score |-> 9,
       classification |-> "Good", wellTyped |-> c[2]] :
        c \in { <<<<LBrace, RBrace>>, TRUE>>, <<<<Prose>>, TRUE>>,
                <<<<Prose, LBrace>>, TRUE>>, <<<<LBrace, RBrace>>, FALSE>> } }

InitSession ==
    /\ NoSelection /\ NoSummary /\ NoPercentage /\ NoJSON /\ NoLoad
    /\ session \in SampleSessions
    /\ apiKey \in {"", "key"}
    /\ transport \in Transports
    /\ reply \in {Ptr(r) : r \in SampleReplies}
    /\ category \in BlankCategories \cup {"Financial Capability"}
    /\ analysis = Nil
    /\ err = NoError
    /\ errDetail = ErrorDetail(NoError)
    /\ messages = <<>>

SpecSession == InitSession /\ [][AnalyzeAnswerWithSession]_vars

(***************************************************************************)
(* The analyses GenerateSessionSummary is tried on                         *)
(***************************************************************************)
MaxAnalyses == 3   \* the most records in one list

\* the first k criteria at 5, the others absent
AllFive(k) ==
    [c \in CriteriaSet |-> IF c \in {Criteria[i] : i \in 1..k} THEN Ptr(5) ELSE Null]

\* the two analyses of TestGenerateSessionSummary: totals 32 and 29
Scores32 ==
    [AllFive(Len(Criteria)) EXCEPT !["financial_understanding"] = Ptr(4),
                                   !["academic_credibility"] = Ptr(4),
                                   !["specificity_research"] = Ptr(4)]

Scores29 == [c \in CriteriaSet |-> IF c = "red_flags" THEN Ptr(5) ELSE Ptr(4)]

SummaryScores ==
    {Scores32, Scores29}
    \cup {AllFive(k) : k \in 3..Len(Criteria)}
    \cup {[AllNull EXCEPT !["migration_intent"] = a, !["communication_quality"] = b] :
            a \in {Null, Ptr(2), Ptr(3), Ptr(4)}, b \in {Null, Ptr(1), Ptr(5)}}

\* a record as the validator leaves it: total_score is the sum of the present
AnalysisRecord(scores) ==
    [Analysis |-> [Scores |-> scores @@ [total_score |-> calculateTotalScore(scores)]]]

InitSummary ==
    /\ NoSelection /\ NoAnalyze /\ PlainSession /\ NoPercentage /\ NoJSON /\ NoLoad
    /\ analyses \in SeqsUpTo({AnalysisRecord(sc) : sc \in SummaryScores}, MaxAnalyses)
    /\ summary = Nil
    /\ summaryErr = NoCall

SpecSummary == InitSummary /\ [][GenerateSessionSummary]_vars

(***************************************************************************)
(* The arguments ScoreToPercentage is tried on                             *)
(***************************************************************************)
MaxCount == 8      \* the largest criteriaCount, one more than there are criteria
ScoreMargin == 3   \* how far a score goes below 0 and above 5 * MaxCount

InitPercent ==
    /\ NoSelection /\ NoAnalyze /\ PlainSession /\ NoSummary /\ NoJSON /\ NoLoad
    /\ criteriaCountArg \in 0..MaxCount
    /\ scoreArg \in (-ScoreMargin)..(5 * MaxCount + ScoreMargin)
    /\ percentage = Nil

SpecPercent == InitPercent /\ [][CallScoreToPercentage]_vars

(***************************************************************************)
(* The analysis results encoded and decoded                                *)
(***************************************************************************)
MaxStringLen == 2   \* the longest classification, in characters

\* every combination of absent, 0 and 5 with three totals, and every text in
\* the classification with short texts and lists in the feedback
SampleResponses ==
    { [SampleResponse EXCEPT !.Scores = scores @@ [total_score |-> total]] :
        scores \in [CriteriaSet -> {Null, Ptr(0), Ptr(5)}], total \in {0, 35, -12} }
    \cup
    { [Scores |-> SampleResponse.Scores,
       Classification |-> class,
       Feedback |-> [Overall |-> overall,
                     ByCriterion |-> [c \in CriteriaSet |->
                                        IF c = "migration_intent" THEN text
                                        ELSE <<"a">>],
                     Improvements |-> improvements]] :
        class \in SeqsUpTo(Chars, MaxStringLen),
        overall \in SeqsUpTo(Chars, 1), text \in SeqsUpTo(Chars, 1),
        improvements \in {Nil} \cup {Ptr(list) : list \in SeqsUpTo(SeqsUpTo(Chars, 1), 2)} }

InitJSON ==
    /\ NoSelection /\ NoAnalyze /\ PlainSession /\ NoSummary /\ NoPercentage /\ NoLoad
    /\ response \in SampleResponses
    /\ jsonData = Nil
    /\ unmarshaled = Nil

NextJSON == JSONMarshal \/ JSONUnmarshal

SpecJSON == InitJSON /\ [][NextJSON]_vars

(***************************************************************************)
(* The files LoadQuestions is tried on                                     *)
(***************************************************************************)
QuestionsFile(exists, wellFormed, bank) ==
    [exists |-> exists, wellFormed |-> wellFormed, categories |-> bank]

UnusableFiles == {QuestionsFile(exists, FALSE, <<>>) : exists \in BOOLEAN}

\* one path with any file, the other with a missing, malformed or full one;
\* QuestionsByCategory is the nil map of a fresh process
InitLoad ==
    /\ NoAnalyze /\ PlainSession /\ NoSummary /\ NoPercentage /\ NoJSON
    /\ QuestionsByCategory = <<>>
    /\ level = NoCall
    /\ selectedQuestions = <<>>
    /\ randomCategory = NoCategory
    /\ \E first \in UnusableFiles \cup {QuestionsFile(TRUE, TRUE, b) : b \in Banks},
          second \in UnusableFiles \cup {QuestionsFile(TRUE, TRUE, MakeBank("two", <<>>))} :
          files = [p \in Paths |-> IF p = "interview/questions.json" THEN first ELSE second]
    /\ path = ""
    /\ loadErr = NoCall

NextLoad == (\E p \in Paths : LoadQuestions(p)) \/ InitQuestions

SpecLoad == InitLoad /\ [][NextLoad]_vars

(***************************************************************************)
(* The life of a session: spec.md section 4.3 (the handlers that submit an *)
(* answer, read a session and cancel it) over the Session type of          *)
(* models.go.  A turn is the scores of an analysis that went through, or   *)
(* Nil for a turn that failed (transport or decode, spec.md section 7).    *)
(***************************************************************************)
MaxQuestions == 3   \* the longest selected sequence of a session

\* the records GenerateSessionSummary is given: the analysis of every answer
RecordsOf(answers) ==
    [k \in 1..Len(answers) |-> [Analysis |-> Deref(answers[k].Analysis)]]

\* a Summary computed at every recorded Answer, finishing or not
Submitted_eager(s, turn) ==
    IF s.Status # "active" \/ turn = Nil THEN s
    ELSE LET question == s.SelectedQuestions[s.QuestionIndex + 1]
             answers == Append(s.Answers,
                               [QuestionID |-> question.ID,
                                QuestionText |-> question.Text,
                                Text |-> OwnText(s.QuestionIndex + 1, 2),
                                Analysis |-> Ptr(AnalysisRecord(Deref(turn)).Analysis)])
         IN  [s EXCEPT !.Answers = answers,
                       !.QuestionIndex = s.QuestionIndex + 1,
                       !.Status = IF s.QuestionIndex + 1 = Len(s.SelectedQuestions)
                                  THEN "finished" ELSE "active",
                       !.Summary = Ptr(SessionSummary(RecordsOf(answers)))]

\* the session after an answer submission
Submitted(s, turn) ==
    IF s.Status # "active" \/ turn = Nil THEN s
    ELSE LET question == s.SelectedQuestions[s.QuestionIndex + 1]
             answers == Append(s.Answers,
                               [QuestionID |-> question.ID,
                                QuestionText |-> question.Text,
                                Text |-> OwnText(s.QuestionIndex + 1, 2),
                                Analysis |-> Ptr(AnalysisRecord(Deref(turn)).Analysis)])
             recorded == [s EXCEPT !.Answers = answers,
                                   !.QuestionIndex = s.QuestionIndex + 1]
         IN  IF recorded.QuestionIndex = Len(s.SelectedQuestions)
             THEN [recorded EXCEPT !.Status = "finished",
                                   !.Summary = Ptr(SessionSummary(RecordsOf(answers)))]
             ELSE recorded

Aborted_always(s) == [s EXCEPT !.Status = "aborted"]

\* the session after an external cancellation
Aborted(s) == IF s.Status = "active" THEN [s EXCEPT !.Status = "aborted"] ELSE s

SubmitAnswer(turn) ==
    /\ session' = Submitted(session, turn)
    /\ UNCHANGED <<apiKey, transport, errDetail, messages>>
    /\ UNCHANGED <<selectVars, analyzeVars, summaryVars, percentVars, jsonVars, loadVars>>

ReadSession ==
    /\ session' = session
    /\ UNCHANGED <<apiKey, transport, errDetail, messages>>
    /\ UNCHANGED <<selectVars, analyzeVars, summaryVars, percentVars, jsonVars, loadVars>>

CancelSession ==
    /\ session' = Aborted(session)
    /\ UNCHANGED <<apiKey, transport, errDetail, messages>>
    /\ UNCHANGED <<selectVars, analyzeVars, summaryVars, percentVars, jsonVars, loadVars>>

InitLifecycle ==
    /\ NoSelection /\ NoAnalyze /\ NoSummary /\ NoPercentage /\ NoJSON /\ NoLoad
    /\ \E n \in 1..MaxQuestions :
          session = [NewSession EXCEPT !.SelectedQuestions =
                        [k \in 1..n |-> NewQuestion(k, CategoryOrder[k], OwnText(k, 1))]]
    /\ apiKey = "key"
    /\ transport = "one choice"
    /\ errDetail = ErrorDetail(NoError)
    /\ messages = <<>>

NextLifecycle ==
    \/ \E turn \in {Nil} \cup {Ptr(sc) : sc \in {Scores32, Scores29, AllFive(3), AllFive(7)}} :
          SubmitAnswer(turn)
    \/ ReadSession
    \/ CancelSession

SpecLifecycle == InitLifecycle /\ [][NextLifecycle]_vars

(***************************************************************************)
(* Properties of the selection (specification Spec)                        *)
(***************************************************************************)
Returned == level # NoCall

CountFrom(c) ==
    Cardinality({i \in 1..Len(selectedQuestions) : selectedQuestions[i].Category = c})

InBank(c) == c \in DOMAIN QuestionsByCategory

SixCategories ==
    { "Purpose of Study", "Academic Background", "University Choice",
      "Financial Capability", "Post-Graduation Plans", "Immigration Intent" }

\* C1: whatever the tier and the bank, the returned sequence never holds two
\* questions with the same Text.
C1_NoDuplicateText ==
    Returned =>
        \A i, j \in 1..Len(selectedQuestions) :
            i # j => selectedQuestions[i].Text # selectedQuestions[j].Text

FreshEntries(k) ==
    LET c == CategoryOrder[k]
        earlier == UNION {Range(QuestionsByCategory[CategoryOrder[m]]) :
                            m \in {n \in 1..(k - 1) : InBank(CategoryOrder[n])}}
    IN  IF InBank(c)
        THEN Cardinality({i \in 1..Len(QuestionsByCategory[c]) :
                            QuestionsByCategory[c][i] \notin earlier})
        ELSE 0

EasyFour ==
    << "Purpose of Study", "Academic Background", "University Choice",
       "Post-Graduation Plans" >>

FirstSixTexts ==
    {selectedQuestions[i].Text :
        i \in {k \in 1..Len(selectedQuestions) : k <= 6}}

AnalyzeReturned == analysis # Nil \/ err # NoError

TheReply == Deref(reply)
TheAnalysis == Deref(analysis)

PresentCriteria(scores) == {c \in CriteriaSet : scores[c] # Null}

RECURSIVE SumOver(_, _)
SumOver(S, scores) ==
    IF S = {} THEN 0
    ELSE LET c == CHOOSE x \in S : TRUE
         IN  Deref(scores[c]) + SumOver(S \ {c}, scores)

SumOfPresent(scores) == SumOver(PresentCriteria(scores), scores)

\* C5: in every Analysis Result returned, total_score is the sum of the
\* criterion scores that are present, whatever total the reply stated.
C5_TotalIsSumOfPresent ==
    analysis # Nil =>
        TheAnalysis.Scores.total_score = SumOfPresent(TheAnalysis.Scores)

\* a reply whose stated total is wrong, with present and absent criteria
C5_Witness ==
    /\ analysis # Nil
    /\ TheReply.total_score # SumOfPresent(TheReply.scores)
    /\ PresentCriteria(TheAnalysis.Scores) \notin {{}, CriteriaSet}
    /\ TheAnalysis.Scores.total_score = 13

\* the threshold table as C6 words it: three exact rows, and for any other
\* count the percentages of 5 * count
StatedTableTier(total, count) ==
    CASE count = 3 -> (IF total >= 13 THEN "Excellent" ELSE IF total >= 10 THEN "Good"
                       ELSE IF total >= 7 THEN "Average" ELSE "Weak")
      [] count = 4 -> (IF total >= 17 THEN "Excellent" ELSE IF total >= 13 THEN "Good"
                       ELSE IF total >= 9 THEN "Average" ELSE "Weak")
      [] count = 5 -> (IF total >= 21 THEN "Excellent" ELSE IF total >= 17 THEN "Good"
                       ELSE IF total >= 12 THEN "Average" ELSE "Weak")
      [] OTHER -> (IF 100 * total >= 85 * 5 * count THEN "Excellent"
                   ELSE IF 100 * total >= 70 * 5 * count THEN "Good"
                   ELSE IF 100 * total >= 50 * 5 * count THEN "Average" ELSE "Weak")

\* the same table, with Weak when no criterion is present
AmendedTableTier(total, count) ==
    IF count = 0 THEN "Weak" ELSE StatedTableTier(total, count)

\* a reply whose text is a JSON object and whose fields are well typed
Decodable ==
    /\ TheReply.wellTyped
    /\ TheReply.content \in
          {<<LBrace, RBrace>>, <<FenceJson, Space, LBrace, RBrace, Space, Fence>>}

\* C6 as stated: the classification of every Analysis Result returned is the
\* tier the table gives for (sum of the present scores, number of present
\* criteria), with the percentage rule for every count other than 3, 4, 5;
\* the stated total and classification change nothing and cause no error.
C6_ClassificationIsStatedTable ==
    /\ analysis # Nil =>
          TheAnalysis.Classification =
             StatedTableTier(SumOfPresent(TheReply.scores),
                             Cardinality(PresentCriteria(TheReply.scores)))
    /\ (AnalyzeReturned /\ Decodable) => analysis # Nil /\ err = NoError

\* C6 as amended: the same, except that a result with no present criterion
\* is Weak.
C6_ClassificationIsTable ==
    /\ analysis # Nil =>
          TheAnalysis.Classification =
             AmendedTableTier(SumOfPresent(TheReply.scores),
                              Cardinality(PresentCriteria(TheReply.scores)))
    /\ (AnalyzeReturned /\ Decodable) => analysis # Nil /\ err = NoError

\* three criteria adding up to the cutoff 13, stated as Weak, returned as
\* Excellent
C6_Witness ==
    /\ analysis # Nil
    /\ Cardinality(PresentCriteria(TheReply.scores)) = 3
    /\ SumOfPresent(TheReply.scores) = 13
    /\ TheReply.classification = "Weak"
    /\ TheAnalysis.Classification = "Excellent"

\* the category -> criteria table of the system prompt
CategoryCriteria(c) ==
    CASE c = "Financial Capability" ->
           {"financial_understanding", "communication_quality", "red_flags"}
      [] c = "University Choice" ->
           {"specificity_research", "communication_quality", "red_flags"}
      [] c = "Post-Graduation Plans" ->
           {"migration_intent", "consistency", "communication_quality", "red_flags"}
      [] c = "Academic Background" ->
           {"academic_credibility", "communication_quality", "red_flags"}
      [] c = "Immigration Intent" ->
           {"migration_intent", "communication_quality", "red_flags"}
      [] c = "Purpose of Study" ->
           {"specificity_research", "academic_credibility", "communication_quality",
            "red_flags"}

\* C7: when the evaluation is made with a category of the table, every
\* criterion the table does not list for it is absent from the result.
C7_UnlistedCriteriaAbsent ==
    (analysis # Nil /\ category \in SixCategories) =>
        \A c \in CriteriaSet \ CategoryCriteria(category) :
            TheAnalysis.Scores[c] = Null

\* C8: every criterion score present in a returned Analysis Result lies in
\* 1..5; a reply with a present score outside 1..5 yields no result.
C8_ScoresWithinOneToFive ==
    analysis # Nil =>
        \A c \in PresentCriteria(TheAnalysis.Scores) :
            Deref(TheAnalysis.Scores[c]) \in 1..5

CountOf(text, token) == Cardinality({i \in 1..Len(text) : text[i] = token})

\* every closing brace closes an opening one, and none stays open
BracesBalanced(text) ==
    /\ CountOf(text, LBrace) = CountOf(text, RBrace)
    /\ \A q \in 1..Len(text) :
          CountOf(SubSeq(text, 1, q), LBrace) >= CountOf(SubSeq(text, 1, q), RBrace)

IsProse(text) == \A i \in 1..Len(text) : text[i] \in {Prose, Space, LBrace, RBrace}

\* leading prose, one JSON object (between fence markers or not), trailing
\* prose
ProseObjectProse(text) ==
    \E i \in 1..Len(text), j \in 1..Len(text) :
        /\ i <= j
        /\ ValidJSON(SubSeq(text, i, j), 1, 0, FALSE)
        /\ \/ IsProse(SubSeq(text, 1, i - 1))
           \/ /\ i > 1
              /\ text[i - 1] \in {Fence, FenceJson}
              /\ IsProse(SubSeq(text, 1, i - 2))
        /\ \/ IsProse(SubSeq(text, j + 1, Len(text)))
           \/ /\ j < Len(text)
              /\ text[j + 1] = Fence
              /\ IsProse(SubSeq(text, j + 2, Len(text)))

\* C9: a reply made of leading prose, one well-typed JSON object (fenced or
\* not) and trailing prose is decoded whenever its braces are balanced, also
\* when the prose or a string of the object holds braces.
C9_BalancedReplyDecodes ==
    (AnalyzeReturned /\ TheReply.wellTyped
        /\ ProseObjectProse(TheReply.content) /\ BracesBalanced(TheReply.content))
    => analysis # Nil /\ err = NoError

\* C10 as stated: a reply whose braces are not balanced (an opening brace
\* never closed, or more opening or closing braces than their counterpart)
\* yields an error and no Analysis Result.
C10_UnbalancedReplyFails ==
    (AnalyzeReturned /\ ~BracesBalanced(TheReply.content))
    => analysis = Nil /\ err # NoError

\* no opening brace, or the braces from the first opening one on never
\* bring the count of open braces back to zero
FirstBraceUnmatched(text) ==
    \A p \in 1..Len(text) :
        (text[p] = LBrace /\ \A k \in 1..(p - 1) : text[k] # LBrace)
        => \A q \in p..Len(text) :
              CountOf(SubSeq(text, p, q), LBrace) # CountOf(SubSeq(text, p, q), RBrace)

\* C10 as amended: a reply that has no opening brace, or whose first opening
\* brace is never matched (counting every brace after it), yields an error
\* and no Analysis Result.
C10_UnmatchedFirstBraceFails ==
    (AnalyzeReturned /\ FirstBraceUnmatched(TheReply.content))
    => analysis = Nil /\ err \in {ErrNoJSON, ErrUnmatched}

\* an object whose only open brace is inside a string
C10_Witness ==
    /\ AnalyzeReturned
    /\ CountOf(TheReply.content, LBrace) = 2
    /\ FirstBraceUnmatched(TheReply.content)
    /\ ValidJSON(TheReply.content, 1, 0, FALSE)
    /\ analysis = Nil
    /\ err = ErrUnmatched

(***************************************************************************)
(* Properties of AnalyzeAnswerWithSession (specification SpecSession)      *)
(***************************************************************************)
DecodeErrors == {ErrNoJSON, ErrUnmatched, ErrParse}
TransportErrors == {"failed to send request", "failed to read response", "API error (status)", "failed to unmarshal response", "empty response from API"}

\* C11: AnalyzeAnswerWithSession never changes the Session it is given
\* (SelectedQuestions, QuestionIndex, Answers, Status, Summary), whether it
\* succeeds or fails, and whenever it fails the analysis it returns is nil.
C11_SessionUntouched ==
    /\ [][session' = session]_vars
    /\ [](err # NoError => analysis = Nil)

\* a decode failure with a session of MaxAnswers answers
C11_Witness ==
    /\ err \in DecodeErrors
    /\ analysis = Nil
    /\ Len(session.Answers) = MaxAnswers
    /\ Len(messages) > MaxAnswers

\* two errors can be told apart by their dynamic type or by their message
Distinguishable(e1, e2) ==
    ErrorDetail(e1).type # ErrorDetail(e2).type \/ e1 # e2

\* C12: the error of a decode failure (no JSON object, unmatched braces,
\* structural decode failure) can be told apart from every transport or
\* provider error, and carries the raw reply text.
C12_DecodeErrorCarriesRawText ==
    err \in DecodeErrors =>
        /\ \A e \in TransportErrors : Distinguishable(err, e)
        /\ "content" \in errDetail.carries

(***************************************************************************)
(* Properties of GenerateSessionSummary (specification SpecSummary)        *)
(***************************************************************************)
Summarized == summaryErr # NoCall
TheSummary == Deref(summary)

\* C13: GenerateSessionSummary called with zero analyses returns an error
\* and no summary; no summary of zero questions is ever returned.
C13_EmptyListIsAnError ==
    /\ (Summarized /\ analyses = <<>>) => (summary = Nil /\ summaryErr = "no analyses provided")
    /\ summary # Nil => TheSummary.TotalQuestions >= 1

C13_Witness == Summarized /\ analyses = <<>> /\ summaryErr = "no analyses provided"

\* C14: for every non-empty list of analyses, TotalQuestions is the number
\* of analyses and AverageScore times that number is the sum of their
\* total scores.
C14_MeanOfTotals ==
    (Summarized /\ analyses # <<>>) =>
        /\ summary # Nil
        /\ TheSummary.TotalQuestions = Len(analyses)
        /\ TheSummary.AverageScore.num * Len(analyses)
             = SumTotalScore(analyses) * TheSummary.AverageScore.den

\* totals 32 and 29 give 30.5, that is 61 / 2
C14_Witness ==
    /\ summary # Nil
    /\ analyses = <<AnalysisRecord(Scores32), AnalysisRecord(Scores29)>>
    /\ TheSummary.AverageScore.num * 2 = 61 * TheSummary.AverageScore.den

\* the grade of the percentage 100 * (sum / n) / (5 * count / n), for
\* count > 0 present criteria in all
PercentageGrade(sum, count) ==
    IF 100 * sum >= 85 * 5 * count THEN "A"
    ELSE IF 100 * sum >= 70 * 5 * count THEN "B"
    ELSE IF 100 * sum >= 50 * 5 * count THEN "C"
    ELSE "D"

\* C15: the letter grade follows the percentage of the mean total score over
\* 5 times the average number of present criteria per answer: A exactly when
\* it is >= 85%, B when >= 70%, C when >= 50%, D otherwise.
C15_GradeIsPercentageOfMean ==
    (summary # Nil /\ SumCriteriaCount(analyses) > 0) =>
        TheSummary.OverallGrade
            = PercentageGrade(SumTotalScore(analyses), SumCriteriaCount(analyses))

\* C16: a criterion is among the strengths exactly when it is present with
\* score >= 4 in at least half of the n analyses (2 * occurrences >= n), among
\* the weaknesses exactly when present with score <= 3 in at least half, and
\* each list names it at most once.
C16_HalfOfTheAnalyses ==
    summary # Nil =>
        \A c \in CriteriaSet :
            /\ BagIn(formatCriterionName(c), TheSummary.StrongAreas)
                 <=> 2 * StrongCount(analyses, c) >= Len(analyses)
            /\ BagIn(formatCriterionName(c), TheSummary.WeakAreas)
                 <=> 2 * WeakCount(analyses, c) >= Len(analyses)
            /\ CopiesIn(formatCriterionName(c), TheSummary.StrongAreas) <= 1
            /\ CopiesIn(formatCriterionName(c), TheSummary.WeakAreas) <= 1

\* C17: the red-flag list holds the description of a criterion exactly when
\* some analysis has that criterion present with score <= 2, and holds no
\* description more than once.
C17_RedFlagsOncePerCriterion ==
    summary # Nil =>
        /\ \A c \in CriteriaSet :
              BagIn(RedFlagDescription[c], TheSummary.CommonRedFlags)
                <=> \E i \in 1..Len(analyses) :
                       /\ analyses[i].Analysis.Scores[c] # Nil
                       /\ Deref(analyses[i].Analysis.Scores[c]) <= 2
        /\ \A e \in BagToSet(TheSummary.CommonRedFlags) :
              /\ CopiesIn(e, TheSummary.CommonRedFlags) = 1
              /\ e \in Range([k \in 1..Len(Criteria) |-> RedFlagDescription[Criteria[k]]])

\* two analyses trigger the same flag and a third none
C17_Witness ==
    /\ summary # Nil
    /\ Len(analyses) = 3
    /\ FlagCount(analyses, "migration_intent") = 2
    /\ FlagCount(analyses, "communication_quality") = 2
    /\ BagCardinality(TheSummary.CommonRedFlags) = 2

(***************************************************************************)
(* Properties of ScoreToPercentage (specification SpecPercent)             *)
(***************************************************************************)
ThePercentage == Deref(percentage)

Clamp(x, lo, hi) == IF x < lo THEN lo ELSE IF x > hi THEN hi ELSE x

\* p <= q for two fractions with positive denominators
FractionLeq(p, q) == p.num * q.den <= q.num * p.den

\* C18: for n >= 1 ScoreToPercentage(score, n) is 100 * (c - n) / (4n) with c
\* the score clamped into [n, 5n]: 0 at score = n, 100 at score = 5n, not
\* decreasing in score and within 0..100 for every score; for n = 0 it is 0.
C18_PercentageOfClampedScore ==
    percentage # Nil =>
        LET n == criteriaCountArg
            c == Clamp(scoreArg, n, 5 * n)
            p == ThePercentage
        IN  /\ p.den > 0
            /\ n >= 1 => p.num * 4 * n = 100 * (c - n) * p.den
            /\ (n >= 1 /\ scoreArg = n) => p.num = 0
            /\ (n >= 1 /\ scoreArg = 5 * n) => p.num = 100 * p.den
            /\ FractionLeq(ScoreToPercentage(scoreArg - 1, n), p)
            /\ FractionLeq(FloatDiv(0, 1), p) /\ FractionLeq(p, FloatDiv(100, 1))
            /\ n = 0 => p.num = 0

\* a score above the maximum of 7 criteria gives 100
C18_Witness ==
    /\ percentage # Nil
    /\ criteriaCountArg = Len(Criteria)
    /\ scoreArg > 5 * Len(Criteria)
    /\ ThePercentage.num = 100 * ThePercentage.den

(***************************************************************************)
(* Properties of the JSON form (specification SpecJSON)                    *)
(***************************************************************************)
TheUnmarshaled == Deref(unmarshaled)

\* C19: encoding an analysis result to JSON and decoding it again gives the
\* same value: every criterion keeps its score or stays absent (never 0 for
\* absent), and total_score, classification and the feedback (overall, the
\* text of each criterion, the improvements in order) are unchanged.
C19_RoundTrip ==
    unmarshaled # Nil =>
        /\ \A c \in CriteriaSet :
              /\ response.Scores[c] = Nil <=> TheUnmarshaled.Scores[c] = Nil
              /\ TheUnmarshaled.Scores[c] = response.Scores[c]
        /\ TheUnmarshaled.Scores["total_score"] = response.Scores["total_score"]
        /\ TheUnmarshaled.Classification = response.Classification
        /\ TheUnmarshaled.Feedback.Overall = response.Feedback.Overall
        /\ TheUnmarshaled.Feedback.ByCriterion = response.Feedback.ByCriterion
        /\ TheUnmarshaled.Feedback.Improvements = response.Feedback.Improvements
        /\ TheUnmarshaled = response

\* a result with an absent criterion, a criterion at 0 and a negative total
C19_Witness ==
    /\ unmarshaled # Nil
    /\ response.Scores["migration_intent"] = Nil
    /\ response.Scores["red_flags"] = Ptr(0)
    /\ response.Scores["total_score"] < 0
    /\ TheUnmarshaled.Scores["migration_intent"] = Nil

(***************************************************************************)
(* Properties of LoadQuestions (specification SpecLoad)                    *)
(***************************************************************************)
Loaded == loadErr # NoCall
TheFile == files[path]

\* C20: LoadQuestions returns an error whenever one of the 6 required
\* categories is missing from the data source or present with an empty
\* list; it succeeds only when all 6 are present and non-empty.
C20_RequiredCategoriesNonEmpty ==
    Loaded =>
        (loadErr = NoError <=>
            /\ TheFile.exists /\ TheFile.wellFormed
            /\ \A c \in SixCategories :
                  /\ c \in DOMAIN TheFile.categories
                  /\ TheFile.categories[c] # <<>>)

\* C21: when LoadQuestions or InitQuestions fails, QuestionsByCategory is
\* left as it was before the call.
C21_FailedLoadLeavesBank ==
    [][loadErr' \notin {NoCall, NoError} => QuestionsByCategory' = QuestionsByCategory]_vars

(***************************************************************************)
(* Identifiers of the selected questions.                                  *)
(***************************************************************************)
\* the category name with every non-alphanumeric character replaced by "_"
Folded(c) ==
    [k \in 1..Len(CategoryChars(c)) |->
        IF CategoryChars(c)[k] \in AlphaNumeric THEN CategoryChars(c)[k] ELSE "_"]

\* C22: the question at 1-based position i of the returned sequence has the
\* identifier "q<i>_<S>", S being its category name with every
\* non-alphanumeric character replaced by an underscore (same length).
C22_IdentifierIsPositionAndFoldedName ==
    Returned =>
        \A i \in 1..Len(selectedQuestions) :
            /\ selectedQuestions[i].ID.n = i
            /\ selectedQuestions[i].ID.suffix = Folded(selectedQuestions[i].Category)

(***************************************************************************)
(* Properties of the life of a session.                                    *)
(***************************************************************************)
\* C23: the status only moves from active to finished or from active to
\* aborted; once it is finished or aborted no operation changes it.
C23_StatusOnlyLeavesActive ==
    [][session'.Status # session.Status =>
          /\ session.Status = "active"
          /\ session'.Status \in {"finished", "aborted"}]_vars

\* a session cancelled after its first answers
C23_Witness ==
    /\ session.Status = "aborted"
    /\ session.Answers # <<>>
    /\ session.QuestionIndex < Len(session.SelectedQuestions)

\* what a session holds of its Summary
SummaryInPlace(s) ==
    IF s.Status = "finished" /\ s.QuestionIndex = Len(s.SelectedQuestions)
    THEN s.Summary = Ptr(SessionSummary(RecordsOf(s.Answers)))
    ELSE s.Summary = Nil

\* C24: the Summary is produced exactly once, at the step where appending an
\* Answer makes the progress index equal to the length of the selected
\* sequence: the session becomes finished there and the Summary is that of
\* all the recorded Answers; before, the Summary is absent, and afterwards
\* no step changes it.
C24_SummaryAtTheFinishingStep ==
    /\ [](SummaryInPlace(session) /\ session.QuestionIndex = Len(session.Answers))
    /\ [][/\ session.Summary # Nil => session'.Summary = session.Summary
          /\ session'.Status = "finished" /\ session.Status # "finished" =>
                /\ Len(session'.Answers) = Len(session.Answers) + 1
                /\ session'.QuestionIndex = Len(session.SelectedQuestions)]_vars

C24_Witness ==
    /\ session.Status = "finished"
    /\ Len(session.Answers) = MaxQuestions
    /\ session.Summary # Nil
    /\ Deref(session.Summary).TotalQuestions = MaxQuestions

(***************************************************************************)
(* Further properties of the selection.                                    *)
(***************************************************************************)
\* the categories a tier draws from
TierCategories ==
    CASE level = "easy" -> Range(EasyFour)
      [] level \in {"medium", "hard", ""} -> SixCategories
      [] OTHER -> {}

\* C25: at every tier a category that is absent from the bank, or empty,
\* contributes no question and stops nothing: the call returns, and every
\* category of the tier that has a question whose text occurs in no earlier
\* category still contributes.
C25_AbsentCategoryIsSkipped ==
    Returned =>
        \A c \in SixCategories :
            /\ ~HasQuestions(c) => CountFrom(c) = 0
            /\ (c \in TierCategories /\ FreshEntries(CategoryIndex(c)) >= 1)
                  => CountFrom(c) >= 1

\* the hard tier on a bank whose first category is absent
C25_Witness ==
    /\ Returned /\ level = "hard"
    /\ ~InBank("Purpose of Study")
    /\ \A c \in SixCategories \ {"Purpose of Study"} : CountFrom(c) >= 1

(***************************************************************************)
(* The messages sent to the reasoning service.                             *)
(***************************************************************************)
\* how many of the first k answers of the session carry an analysis
AnalyzedAmong(k) ==
    Cardinality({m \in 1..k : session.Answers[m].Analysis # Nil})

\* where the user message of the k-th recorded answer stands in the list
UserPosition(k) == 1 + k + AnalyzedAmong(k - 1)

\* C26: the list sent is the system block, then for each recorded Answer in
\* order one user message with its question and answer, immediately followed
\* by an assistant message with the stored analysis exactly when the Answer
\* has one, and last exactly one user message with the new question and
\* answer, prefixed by the category exactly when the category is not blank.
C26_MessageList ==
    messages # <<>> =>
        LET n == Len(session.Answers)
            last == messages[Len(messages)]
        IN  /\ Len(messages) = 2 + n + AnalyzedAmong(n)
            /\ messages[1] = [Role |-> "system", Content |-> <<"va.systemPrompt">>]
            /\ \A k \in 1..n :
                  LET a == session.Answers[k]
                      user == messages[UserPosition(k)]
                      next == messages[UserPosition(k) + 1]
                  IN  /\ user.Role = "user"
                      /\ user.Content[1] = "Question: "
                      /\ user.Content[2] = a.QuestionText
                      /\ user.Content[4] = a.Text
                      /\ IF a.Analysis # Nil
                         THEN next = [Role |-> "assistant",
                                      Content |-> Marshal(Deref(a.Analysis))]
                         ELSE next.Role = "user"
            /\ last.Role = "user"
            /\ last.Content[1] = IF category \in {"", " "} THEN "Question: " ELSE "Category: "
            /\ category \notin {"", " "} => last.Content[2] = category
            /\ last.Content[Len(last.Content) - 2] = "question"
            /\ last.Content[Len(last.Content)] = "answer"

\* a categorized question after one analyzed and one unanalyzed answer
C26_Witness ==
    /\ Len(messages) = 5
    /\ Len(session.Answers) = 2
    /\ AnalyzedAmong(2) = 1
    /\ category = "Financial Capability"
    /\ messages[Len(messages)].Content[1] = "Category: "

\* C27: a call of SelectQuestionsForSession, at any tier, leaves the bank as
\* it was: its categories, their lists and the order of the lists.
C27_SelectionLeavesBank ==
    [][QuestionsByCategory' = QuestionsByCategory]_vars

\* a medium selection with its extra question, from lists of two questions
C27_Witness ==
    /\ level = "medium"
    /\ Len(selectedQuestions) = 7
    /\ \A c \in SixCategories : InBank(c) /\ Len(QuestionsByCategory[c]) = 2

\* C28: a level token other than "easy", "medium", "hard" and "" ("default"
\* among them) makes the call return the empty sequence.
C28_UnknownLevelSelectsNothing ==
    (Returned /\ level \notin {"easy", "medium", "hard", ""}) => selectedQuestions = <<>>

C28_Witness ==
    /\ level = "default"
    /\ selectedQuestions = <<>>
    /\ \A c \in SixCategories : HasQuestions(c)

(***************************************************************************)
(* Further properties of the session summary.                              *)
(***************************************************************************)
\* the criteria an analysis scores
PresentIn(rec) == {c \in CriteriaSet : rec.Analysis.Scores[c] # Nil}

\* every analysis scores 5 on each of its present criteria, 3 to 7 of them
EveryAnswerPerfect ==
    /\ analyses # <<>>
    /\ \A i \in 1..Len(analyses) :
          /\ Cardinality(PresentIn(analyses[i])) \in 3..7
          /\ \A c \in PresentIn(analyses[i]) : Deref(analyses[i].Analysis.Scores[c]) = 5

\* C29: when every answer of a session scores 5 on every present criterion,
\* with 3 to 7 criteria present per answer, the overall grade is A and the
\* recommendation is that of the top band, "Excellent performance! ...".
C29_PerfectSessionIsExcellent ==
    (Summarized /\ EveryAnswerPerfect) =>
        /\ summary # Nil
        /\ TheSummary.OverallGrade = "A"
        /\ TheSummary.Recommendation = "Excellent performance!"

\* C30: in a summary no criterion is both among the strengths and among the
\* weaknesses.
C30_StrengthsAndWeaknessesDisjoint ==
    summary # Nil =>
        \A c \in CriteriaSet :
            ~ /\ BagIn(formatCriterionName(c), TheSummary.StrongAreas)
              /\ BagIn(formatCriterionName(c), TheSummary.WeakAreas)

====
